---- MODULE Spec2Model ----
(***************************************************************************)
(* StudyFlow: the gamification utility module (XP, levels, badges, streak, *)
(* the persisted player-statistics blob) and the screens' backend calls.   *)
(***************************************************************************)
EXTENDS Integers, Sequences, FiniteSets, TLC

VARIABLES
  storage,   \* AsyncStorage under STATS_KEY: [present, blob]
  day,       \* the local calendar day of new Date(), as a day number
  hour,      \* new Date().getHours()
  arg,       \* the argument a pure function is applied to
  ret,       \* what the last gamification call returned
  hist,      \* history of the calls made (not program state; read by the properties only)
  session,   \* supabase session: TRUE when it holds an access_token
  act,       \* the screen handler the user triggered last, and how far it got
  nav,       \* the tab navigator, the Tasks screen's list and the backend's tasks
  notif,     \* the RewardNotification component: its prop, timer and animation
  inflight   \* gamification calls started without awaiting one another

vars == <<storage, day, hour, arg, ret, hist, session, act, nav, notif, inflight>>

(***************************************************************************)
(* Levels                                                                  *)
(***************************************************************************)

LEVELS ==
  << [level |-> 1,  xp |-> 0],
     [level |-> 2,  xp |-> 100],
     [level |-> 3,  xp |-> 250],
     [level |-> 4,  xp |-> 500],
     [level |-> 5,  xp |-> 1000],
     [level |-> 6,  xp |-> 2000],
     [level |-> 7,  xp |-> 3500],
     [level |-> 8,  xp |-> 5500],
     [level |-> 9,  xp |-> 8000],
     [level |-> 10, xp |-> 12000] >>

\* the loop of calculateLevel, from index i down to the first entry
RECURSIVE LevelScan(_, _)
LevelScan(i, xp) ==
  IF i < 1 THEN 1
  ELSE IF xp >= LEVELS[i].xp THEN LEVELS[i].level
  ELSE LevelScan(i - 1, xp)

\* mutant: the threshold itself does not count (xp > threshold)
RECURSIVE LevelScanStrict(_, _)
LevelScanStrict(i, xp) ==
  IF i < 1 THEN 1
  ELSE IF xp > LEVELS[i].xp THEN LEVELS[i].level
  ELSE LevelScanStrict(i - 1, xp)

calculateLevel_strict(xp) == LevelScanStrict(Len(LEVELS), xp)

calculateLevel(xp) == LevelScan(Len(LEVELS), xp)

\* getXPForNextLevel: the threshold of level currentLevel + 1, the last
\* threshold when there is none
getXPForNextLevel(currentLevel) ==
  IF \E i \in 1..Len(LEVELS) : LEVELS[i].level = currentLevel + 1
  THEN LEVELS[CHOOSE i \in 1..Len(LEVELS) : LEVELS[i].level = currentLevel + 1].xp
  ELSE LEVELS[Len(LEVELS)].xp

\* getXPForCurrentLevel: the threshold of currentLevel, 0 when there is none
getXPForCurrentLevel(currentLevel) ==
  IF \E i \in 1..Len(LEVELS) : LEVELS[i].level = currentLevel
  THEN LEVELS[CHOOSE i \in 1..Len(LEVELS) : LEVELS[i].level = currentLevel].xp
  ELSE 0

\* a JavaScript number: a fraction num/den (den > 0), NaN or an infinity
Num(n) == [kind |-> "finite", num |-> n, den |-> 1]
NaN == [kind |-> "NaN", num |-> 0, den |-> 1]
PlusInfinity == [kind |-> "+Infinity", num |-> 0, den |-> 1]
MinusInfinity == [kind |-> "-Infinity", num |-> 0, den |-> 1]

\* n / d on numbers: 0/0 is NaN, x/0 an infinity of the sign of x
Divide(n, d) ==
  IF d = 0
  THEN (IF n = 0 THEN NaN ELSE IF n > 0 THEN PlusInfinity ELSE MinusInfinity)
  ELSE IF d > 0 THEN [kind |-> "finite", num |-> n, den |-> d]
  ELSE [kind |-> "finite", num |-> 0 - n, den |-> 0 - d]

\* a <= b on numbers that are not NaN
NumLeq(a, b) ==
  CASE a.kind = "-Infinity" \/ b.kind = "+Infinity" -> TRUE
    [] a.kind = "+Infinity" \/ b.kind = "-Infinity" -> FALSE
    [] OTHER -> a.num * b.den <= b.num * a.den

\* Math.max and Math.min: NaN when an argument is NaN
MathMax(a, b) ==
  IF a.kind = "NaN" \/ b.kind = "NaN" THEN NaN ELSE IF NumLeq(a, b) THEN b ELSE a

MathMin(a, b) ==
  IF a.kind = "NaN" \/ b.kind = "NaN" THEN NaN ELSE IF NumLeq(a, b) THEN a ELSE b

getLevelProgress(stats) ==
  LET currentLevelXP == getXPForCurrentLevel(stats.currentLevel)
      nextLevelXP == getXPForNextLevel(stats.currentLevel)
      progress == Divide(stats.totalXP - currentLevelXP, nextLevelXP - currentLevelXP)
  IN MathMin(MathMax(progress, Num(0)), Num(1))

(***************************************************************************)
(* Badges and player stats                                                 *)
(***************************************************************************)

BADGES ==
  << "first_task", "week_warrior", "early_bird", "night_owl",
     "speedster", "perfectionist", "pomodoro_master", "study_marathon" >>

BadgeIds == { BADGES[i] : i \in 1..Len(BADGES) }

\* lastTaskDate is optional: NoDate stands for undefined
NoDate == 0

getDefaultStats ==
  [ totalXP |-> 0,
    currentLevel |-> 1,
    tasksCompleted |-> 0,
    currentStreak |-> 0,
    longestStreak |-> 0,
    pomodoroSessions |-> 0,
    totalStudyHours |-> 0,
    badges |-> << >>,
    tasksCompletedOnTime |-> 0,
    tasksCompletedToday |-> 0,
    lastTaskDate |-> NoDate ]

\* the ids in a badges list
BadgeSet(badges) == {badges[i] : i \in 1..Len(badges)}

Includes(seq, x) == \E i \in 1..Len(seq) : seq[i] = x

\* [...new Set(seq)]: the first occurrence of every element, in order
RECURSIVE Dedup(_)
Dedup(seq) ==
  IF seq = << >> THEN << >>
  ELSE LET front == Dedup(SubSeq(seq, 1, Len(seq) - 1))
           last == seq[Len(seq)]
       IN IF Includes(front, last) THEN front ELSE Append(front, last)

\* mutant: a plain concatenation, no Set
MergeBadges_concat(old, new) == old \o new

MergeBadges(old, new) == Dedup(old \o new)

\* the switch of checkForNewBadges
Unlock(id, stats, h) ==
  CASE id = "first_task" -> stats.tasksCompleted >= 1
    [] id = "week_warrior" -> stats.currentStreak >= 7
    [] id = "early_bird" -> h < 8 /\ stats.tasksCompletedToday > 0
    [] id = "night_owl" -> h >= 22 /\ stats.tasksCompletedToday > 0
    [] id = "speedster" -> stats.tasksCompletedToday >= 5
    [] id = "perfectionist" -> stats.tasksCompletedOnTime >= 10
    [] id = "pomodoro_master" -> stats.pomodoroSessions >= 25
    [] id = "study_marathon" -> stats.totalStudyHours >= 40
    [] OTHER -> FALSE

\* mutant: badges already unlocked are not skipped
checkForNewBadges_noskip(stats, h) ==
  SelectSeq(BADGES, LAMBDA id : Unlock(id, stats, h))

checkForNewBadges(stats, h) ==
  SelectSeq(BADGES, LAMBDA id : ~Includes(stats.badges, id) /\ Unlock(id, stats, h))

(***************************************************************************)
(* Storage                                                                 *)
(***************************************************************************)

EmptyStorage == [present |-> FALSE, blob |-> getDefaultStats]

\* mutant: the read error is not caught
loadPlayerStats_nocatch(st, readFails) ==
  IF readFails THEN [raised |-> TRUE, stats |-> st.blob]
  ELSE IF st.present THEN [raised |-> FALSE, stats |-> st.blob]
  ELSE [raised |-> FALSE, stats |-> getDefaultStats]

\* getItem rejects -> catch -> defaults; no value -> defaults; else JSON.parse
loadPlayerStats(st, readFails) ==
  IF readFails THEN [raised |-> FALSE, stats |-> getDefaultStats]
  ELSE IF st.present THEN [raised |-> FALSE, stats |-> st.blob]
  ELSE [raised |-> FALSE, stats |-> getDefaultStats]

\* setItem rejects -> catch -> nothing written
savePlayerStats(st, stats, writeFails) ==
  IF writeFails THEN [raised |-> FALSE, storage |-> st]
  ELSE [raised |-> FALSE, storage |-> [present |-> TRUE, blob |-> stats]]

(***************************************************************************)
(* XP                                                                      *)
(***************************************************************************)

\* a task as completeTask receives it: estimated_duration and due_date are
\* optional; due is how due_date compares with now ("none" when absent,
\* "future" when now <= dueDate, "past" otherwise)
Task(priority, has_duration, estimated_duration, due) ==
  [ priority |-> priority, has_duration |-> has_duration,
    estimated_duration |-> estimated_duration, due |-> due ]

Min(a, b) == IF a <= b THEN a ELSE b

\* mutant: the duration bonus is not capped
calculateTaskXP_nocap(task) ==
  LET priorityBonus ==
        CASE task.priority = "high" -> 15
          [] task.priority = "medium" -> 10
          [] task.priority = "low" -> 5
          [] OTHER -> 0
      durationBonus ==
        IF task.has_duration /\ task.estimated_duration # 0
        THEN task.estimated_duration * 2
        ELSE 0
  IN 10 + priorityBonus + durationBonus

calculateTaskXP(task) ==
  LET priorityBonus ==
        CASE task.priority = "high" -> 15
          [] task.priority = "medium" -> 10
          [] task.priority = "low" -> 5
          [] OTHER -> 0
      durationBonus ==
        IF task.has_duration /\ task.estimated_duration # 0
        THEN Min(task.estimated_duration * 2, 30)
        ELSE 0
  IN 10 + priorityBonus + durationBonus

\* mutant: the XP is added but the level is not recomputed
awardXPStats_nolevel(stats, xpAmount) ==
  [stats EXCEPT !.totalXP = @ + xpAmount]

\* awardXP, between its load and its save
awardXPStats(stats, xpAmount) ==
  LET total == stats.totalXP + xpAmount
  IN [stats EXCEPT !.totalXP = total, !.currentLevel = calculateLevel(total)]

\* mutant: the streak grows on every new day, consecutive or not
updateStreak_nogap(stats, today) ==
  IF stats.lastTaskDate # today
  THEN LET streak == stats.currentStreak + 1
       IN [stats EXCEPT
             !.currentStreak = streak,
             !.longestStreak = IF streak > @ THEN streak ELSE @,
             !.lastTaskDate = today,
             !.tasksCompletedToday = 1]
  ELSE stats

\* mutant: the day counter is not reset on a new day
updateStreak_noreset(stats, today) ==
  IF stats.lastTaskDate # today
  THEN LET streak == IF stats.lastTaskDate # NoDate /\ stats.lastTaskDate = today - 1
                     THEN stats.currentStreak + 1 ELSE 1
       IN [stats EXCEPT
             !.currentStreak = streak,
             !.longestStreak = IF streak > @ THEN streak ELSE @,
             !.lastTaskDate = today]
  ELSE stats

\* mutant: the longest streak is not raised
updateStreak_nolongest(stats, today) ==
  IF stats.lastTaskDate # today
  THEN LET streak == IF stats.lastTaskDate # NoDate /\ stats.lastTaskDate = today - 1
                     THEN stats.currentStreak + 1 ELSE 1
       IN [stats EXCEPT
             !.currentStreak = streak,
             !.lastTaskDate = today,
             !.tasksCompletedToday = 1]
  ELSE stats

\* completeTask, "Update streak": today is new Date().toDateString(),
\* yesterday the day before it
updateStreak(stats, today) ==
  IF stats.lastTaskDate # today
  THEN LET streak == IF stats.lastTaskDate # NoDate /\ stats.lastTaskDate = today - 1
                     THEN stats.currentStreak + 1 ELSE 1
       IN [stats EXCEPT
             !.currentStreak = streak,
             !.longestStreak = IF streak > @ THEN streak ELSE @,
             !.lastTaskDate = today,
             !.tasksCompletedToday = 1]
  ELSE stats

\* completeTask, between its load and its first save
completeTaskStats(stats, task, today, h) ==
  LET counted == [stats EXCEPT
                    !.tasksCompleted = @ + 1,
                    !.tasksCompletedToday = @ + 1,
                    !.tasksCompletedOnTime = IF task.due = "future" THEN @ + 1 ELSE @]
      streaked == updateStreak(counted, today)
      newBadges == checkForNewBadges(streaked, h)
  IN [ newBadges |-> newBadges,
       stats |-> [streaked EXCEPT !.badges = MergeBadges(@, newBadges)] ]

\* completePomodoroSession, between its load and its first save
completePomodoroStats(stats, h) ==
  LET counted == [stats EXCEPT !.pomodoroSessions = @ + 1]
      newBadges == checkForNewBadges(counted, h)
  IN [ newBadges |-> newBadges,
       stats |-> [counted EXCEPT !.badges = MergeBadges(@, newBadges)] ]

(***************************************************************************)
(* The gamification calls, one after another.  Every storage read and      *)
(* write of a call may fail; f says which do.  B bounds the run.           *)
(***************************************************************************)

NoFail == [r1 |-> FALSE, w1 |-> FALSE, r2 |-> FALSE, w2 |-> FALSE]

Fails == [r1 : BOOLEAN, w1 : BOOLEAN, r2 : BOOLEAN, w2 : BOOLEAN]

FailCount(f) ==
  (IF f.r1 THEN 1 ELSE 0) + (IF f.w1 THEN 1 ELSE 0)
    + (IF f.r2 THEN 1 ELSE 0) + (IF f.w2 THEN 1 ELSE 0)

NoRet ==
  [ op |-> "none", raised |-> FALSE, stats |-> getDefaultStats,
    newBadges |-> << >>, xp |-> 0, levelUp |-> FALSE, level |-> 0,
    progress |-> Num(0) ]

\* what a call returned, kept when the run is about the results (B.ret)
Returned(B, r) == IF B.ret THEN r ELSE NoRet

IdleAct ==
  [ handler |-> "none", pc |-> "idle", req |-> [by |-> "none"], nMut |-> 0,
    failure |-> "none", surfaced |-> {} ]

\* the tab navigator before any tab but the first was opened
IdleNav ==
  [ tab |-> "Today", mounted |-> {"Today"}, server |-> 0, tasks |-> 0,
    loading |-> "no", reply |-> 0, loadFailed |-> FALSE ]

\* times the notification is shown in a run
MaxShows == 4

\* RewardNotification mounted with visible = false.  shows counts the times
\* visible became true; timers are the shows whose setTimeout is pending; anim
\* is the show whose dismiss animation runs (0: none); dismissed counts the
\* onDismiss calls per show and cancelled the shows hidden before their timer
\* fired (both history, read by the properties only)
IdleNotif ==
  [ mounted |-> TRUE, visible |-> FALSE, shows |-> 0, timers |-> {}, anim |-> 0,
    dismissed |-> [e \in 1..MaxShows |-> 0], cancelled |-> {} ]

\* a call that is not running
IdleCall == [op |-> "none", pc |-> "idle", stats |-> getDefaultStats, xp |-> 0]

Callers == {1, 2}

IdleInflight == [calls |-> [p \in Callers |-> IdleCall], started |-> 0]

InitG(B) ==
  /\ storage = EmptyStorage
  /\ day = 1
  /\ hour \in B.hours
  /\ arg = 0
  /\ ret = NoRet
  /\ hist = [ calls |-> [d \in 1..B.maxDay |-> 0], nFail |-> 0,
              onTimeRun |-> 0, maxOnTimeRun |-> 0, reported |-> {}, repeated |-> {} ]
  /\ session = FALSE
  /\ act = IdleAct
  /\ nav = IdleNav
  /\ notif = IdleNotif
  /\ inflight = IdleInflight

\* the clock: later the same day, or the next day
Tick(B) ==
  /\ \/ /\ day' = day
        /\ \E h \in B.hours : h > hour /\ hour' = h
     \/ /\ day < B.maxDay
        /\ day' = day + 1
        /\ hour' \in B.hours
  /\ UNCHANGED <<inflight, notif, nav, storage, arg, ret, hist, session, act>>

\* awardXP(xpAmount, reason) from storage st: [storage, levelUp, stats]
awardXP(st, xpAmount, readFails, writeFails) ==
  LET stats == loadPlayerStats(st, readFails).stats
      oldLevel == stats.currentLevel
      new == awardXPStats(stats, xpAmount)
  IN [ storage |-> savePlayerStats(st, new, writeFails).storage,
       levelUp |-> new.currentLevel > oldLevel,
       stats |-> new ]

CompleteTask(B) ==
  \E task \in B.tasks, f \in Fails :
    /\ storage.blob.tasksCompleted < B.maxTasks
    /\ hist.nFail + FailCount(f) <= B.maxFail
    /\ LET stats == loadPlayerStats(storage, f.r1).stats
           xp == calculateTaskXP(task)
           done == completeTaskStats(stats, task, day, hour)
           saved == savePlayerStats(storage, done.stats, f.w1).storage
           result == awardXP(saved, xp, f.r2, f.w2)
           run == IF task.due = "future" THEN hist.onTimeRun + 1
                  ELSE IF task.due = "past" THEN 0 ELSE hist.onTimeRun
       IN /\ storage' = result.storage
          /\ ret' = Returned(B, [NoRet EXCEPT !.op = "completeTask", !.xp = xp,
                                               !.levelUp = result.levelUp,
                                               !.newBadges = done.newBadges])
          /\ hist' = [hist EXCEPT
                        !.calls[day] = Min(@ + 1, B.cap),
                        !.nFail = @ + FailCount(f),
                        !.onTimeRun = run,
                        !.maxOnTimeRun = IF run > @ THEN run ELSE @,
                        !.reported = IF B.ret THEN @ \cup BadgeSet(done.newBadges) ELSE @,
                        !.repeated = IF B.ret
                                     THEN @ \cup (hist.reported \cap BadgeSet(done.newBadges))
                                     ELSE @]
    /\ UNCHANGED <<inflight, notif, nav, day, hour, arg, session, act>>

CompletePomodoroSession(B) ==
  \E f \in Fails :
    /\ storage.blob.pomodoroSessions < B.maxPomo
    /\ hist.nFail + FailCount(f) <= B.maxFail
    /\ LET stats == loadPlayerStats(storage, f.r1).stats
           done == completePomodoroStats(stats, hour)
           saved == savePlayerStats(storage, done.stats, f.w1).storage
           result == awardXP(saved, 5, f.r2, f.w2)
       IN /\ storage' = result.storage
          /\ ret' = Returned(B, [NoRet EXCEPT !.op = "completePomodoroSession"])
    /\ hist' = [hist EXCEPT !.nFail = @ + FailCount(f)]
    /\ UNCHANGED <<inflight, notif, nav, day, hour, arg, session, act>>

AwardXP(B) ==
  \E xpAmount \in B.amounts, f \in {g \in Fails : ~g.r2 /\ ~g.w2} :
    /\ storage.blob.totalXP < B.maxXP
    /\ hist.nFail + FailCount(f) <= B.maxFail
    /\ LET result == awardXP(storage, xpAmount, f.r1, f.w1)
       IN /\ storage' = result.storage
          /\ ret' = Returned(B, [NoRet EXCEPT !.op = "awardXP",
                                               !.levelUp = result.levelUp,
                                               !.stats = result.stats])
    /\ hist' = [hist EXCEPT !.nFail = @ + FailCount(f)]
    /\ UNCHANGED <<inflight, notif, nav, day, hour, arg, session, act>>

\* a caller (the profile screen) loads the stats
LoadPlayerStats(B) ==
  \E readFails \in BOOLEAN :
    /\ hist.nFail + (IF readFails THEN 1 ELSE 0) <= B.maxFail
    /\ LET r == loadPlayerStats(storage, readFails)
       IN ret' = [NoRet EXCEPT !.op = IF readFails THEN "loadFailed" ELSE "load",
                               !.raised = r.raised, !.stats = r.stats]
    /\ hist' = [hist EXCEPT !.nFail = @ + (IF readFails THEN 1 ELSE 0)]
    /\ UNCHANGED <<inflight, notif, nav, storage, day, hour, arg, session, act>>

\* a caller saves the stats it loaded last
SavePlayerStats(B) ==
  \E writeFails \in BOOLEAN :
    /\ ret.op \in {"load", "loadFailed"}
    /\ hist.nFail + (IF writeFails THEN 1 ELSE 0) <= B.maxFail
    /\ LET r == savePlayerStats(storage, ret.stats, writeFails)
       IN /\ storage' = r.storage
          /\ ret' = [NoRet EXCEPT !.op = IF writeFails THEN "saveFailed" ELSE "save",
                                  !.raised = r.raised, !.stats = ret.stats]
    /\ hist' = [hist EXCEPT !.nFail = @ + (IF writeFails THEN 1 ELSE 0)]
    /\ UNCHANGED <<inflight, notif, nav, day, hour, arg, session, act>>

NextG(B) ==
  \/ Tick(B)
  \/ CompleteTask(B)
  \/ CompletePomodoroSession(B)
  \/ AwardXP(B)

(***************************************************************************)
(* Specifications of the gamification calls.  Each bounds the run for the  *)
(* case it is about: the hours of the day, one day's tasks, a week's       *)
(* streak, the due dates.                                                  *)
(***************************************************************************)

\* storage failures in one run
MaxFail == 1

\* standalone awardXP calls stop once totalXP reaches MaxXP
MaxXP == 25

PlainTask == Task("high", FALSE, 0, "none")

\* the badge hours: before 8, between, from 22 on
HoursMaxDay == 2
HoursMaxTasks == 2
HoursMaxPomo == 2

HoursB ==
  [ maxDay |-> HoursMaxDay, hours |-> {7, 12, 22}, maxTasks |-> HoursMaxTasks,
    cap |-> HoursMaxTasks, maxPomo |-> HoursMaxPomo, maxXP |-> MaxXP, maxFail |-> MaxFail,
    tasks |-> {PlainTask}, amounts |-> {100}, ret |-> TRUE ]

InitHours == InitG(HoursB)

NextHours == NextG(HoursB)

SpecHours == InitHours /\ [][NextHours]_vars

\* the tasks of one day
DayMaxDay == 2
DayMaxTasks == 6
DayMaxPomo == 1

DayB ==
  [ maxDay |-> DayMaxDay, hours |-> {12}, maxTasks |-> DayMaxTasks,
    cap |-> DayMaxTasks, maxPomo |-> DayMaxPomo, maxXP |-> MaxXP, maxFail |-> MaxFail,
    tasks |-> {PlainTask}, amounts |-> {100}, ret |-> FALSE ]

InitDay == InitG(DayB)

NextDay == NextG(DayB)

SpecDay == InitDay /\ [][NextDay]_vars

\* a week's streak
StreakMaxDay == 7
StreakMaxTasks == 7
StreakMaxPomo == 1

StreakB ==
  [ maxDay |-> StreakMaxDay, hours |-> {12}, maxTasks |-> StreakMaxTasks,
    cap |-> 1, maxPomo |-> StreakMaxPomo, maxXP |-> MaxXP, maxFail |-> MaxFail,
    tasks |-> {PlainTask}, amounts |-> {100}, ret |-> FALSE ]

InitStreak == InitG(StreakB)

NextStreak == NextG(StreakB)

SpecStreak == InitStreak /\ [][NextStreak]_vars

\* due dates
DueMaxDay == 2
DueMaxTasks == 11
DueMaxPomo == 1

DueB ==
  [ maxDay |-> DueMaxDay, hours |-> {12}, maxTasks |-> DueMaxTasks,
    cap |-> 1, maxPomo |-> DueMaxPomo, maxXP |-> MaxXP, maxFail |-> MaxFail,
    tasks |-> { Task("high", FALSE, 0, "none"), Task("high", FALSE, 0, "future"),
                Task("high", FALSE, 0, "past") },
    amounts |-> {100}, ret |-> FALSE ]

InitDue == InitG(DueB)

NextDue == NextG(DueB)

SpecDue == InitDue /\ [][NextDue]_vars

\* the storage calls on their own, among the calls that fill the storage
StoreMaxDay == 2
StoreMaxTasks == 2
StoreMaxPomo == 1

StoreB ==
  [ maxDay |-> StoreMaxDay, hours |-> {12}, maxTasks |-> StoreMaxTasks,
    cap |-> 1, maxPomo |-> StoreMaxPomo, maxXP |-> MaxXP, maxFail |-> MaxFail,
    tasks |-> {PlainTask}, amounts |-> {100}, ret |-> TRUE ]

InitStore == InitG(StoreB)

NextStore ==
  \/ NextG(StoreB)
  \/ LoadPlayerStats(StoreB)
  \/ SavePlayerStats(StoreB)

SpecStore == InitStore /\ [][NextStore]_vars

(***************************************************************************)
(* The pure functions, applied to arguments drawn from bounded sets        *)
(***************************************************************************)

InitPure(args) ==
  /\ arg \in args
  /\ storage = EmptyStorage
  /\ day = 1
  /\ hour = 12
  /\ ret = NoRet
  /\ hist = [ calls |-> << >>, nFail |-> 0, onTimeRun |-> 0, maxOnTimeRun |-> 0,
             reported |-> {}, repeated |-> {} ]
  /\ session = FALSE
  /\ act = IdleAct
  /\ nav = IdleNav
  /\ notif = IdleNotif
  /\ inflight = IdleInflight

\* calculateLevel over the whole table and a little either side
XPBelow == 3
LevelMaxXP == 12100

InitLevel == InitPure((0 - XPBelow)..LevelMaxXP)

ApplyCalculateLevel ==
  /\ ret.op = "none"
  /\ ret' = [NoRet EXCEPT !.op = "calculateLevel", !.level = calculateLevel(arg)]
  /\ UNCHANGED <<inflight, notif, nav, storage, day, hour, arg, hist, session, act>>

SpecLevel == InitLevel /\ [][ApplyCalculateLevel]_vars

\* getLevelProgress as LevelProgressBar calls it, on the level and XP of stats
\* whose level is the level of their XP
ProgressArgs ==
  { [currentLevel |-> calculateLevel(xp), totalXP |-> xp] :
      xp \in (0 - XPBelow)..LevelMaxXP }

InitProgress == InitPure(ProgressArgs)

ApplyGetLevelProgress ==
  /\ ret.op = "none"
  /\ ret' = [NoRet EXCEPT !.op = "getLevelProgress", !.progress = getLevelProgress(arg)]
  /\ UNCHANGED <<inflight, notif, nav, storage, day, hour, arg, hist, session, act>>

SpecProgress == InitProgress /\ [][ApplyGetLevelProgress]_vars

\* calculateTaskXP on the priorities the edit modal offers and two it does
\* not, without a duration and with durations from below 0 to past the cap
DurationBelow == 2
MaxDuration == 20

TaskXPArgs ==
  { Task(p, TRUE, d, "none") :
      p \in {"low", "medium", "high", "urgent", "", "HIGH"},
      d \in (0 - DurationBelow)..MaxDuration }
    \cup { Task(p, FALSE, 0, "none") :
             p \in {"low", "medium", "high", "urgent", "", "HIGH"} }

InitTaskXP == InitPure(TaskXPArgs)

ApplyCalculateTaskXP ==
  /\ ret.op = "none"
  /\ ret' = [NoRet EXCEPT !.op = "calculateTaskXP", !.xp = calculateTaskXP(arg)]
  /\ UNCHANGED <<inflight, notif, nav, storage, day, hour, arg, hist, session, act>>

SpecTaskXP == InitTaskXP /\ [][ApplyCalculateTaskXP]_vars

\* checkForNewBadges on stats either side of every badge's threshold, with any
\* badges already unlocked, at an hour before 8, between, and from 22 on
SubSeqOf(seq, keep) == SelectSeq(seq, LAMBDA x : x \in keep)

BadgeArgs ==
  { [ hour |-> h,
      stats |-> [getDefaultStats EXCEPT
                   !.tasksCompleted = tc, !.currentStreak = cs,
                   !.tasksCompletedToday = td, !.tasksCompletedOnTime = ot,
                   !.pomodoroSessions = ps, !.totalStudyHours = sh,
                   !.badges = SubSeqOf(BADGES, have)] ] :
      h \in {7, 12, 22}, tc \in {0, 1}, cs \in {6, 7}, td \in {0, 4, 5},
      ot \in {9, 10}, ps \in {24, 25}, sh \in {39, 40}, have \in SUBSET BadgeIds }

InitBadges == InitPure(BadgeArgs)

ApplyCheckForNewBadges ==
  /\ ret.op = "none"
  /\ ret' = [NoRet EXCEPT !.op = "checkForNewBadges",
                          !.newBadges = checkForNewBadges(arg.stats, arg.hour)]
  /\ UNCHANGED <<inflight, notif, nav, storage, day, hour, arg, hist, session, act>>

SpecBadges == InitBadges /\ [][ApplyCheckForNewBadges]_vars

(***************************************************************************)
(* The screens' backend calls.  A handler is described by what its code    *)
(* does around its fetch:                                                  *)
(*   mutating  the request creates, updates, deletes or imports            *)
(*   auth      the headers of getAuthHeaders() are passed to fetch         *)
(*   requests  fetches sent at once (2 under Promise.all)                  *)
(*   mayAbort  an early return before the request (validation, cancel)     *)
(*   parse     "always": response.json() is awaited whatever the status    *)
(*   notOk     on a non-OK status: "throw" into the catch, "alert" in the  *)
(*             else branch, "skip" (if (ok) with no else), "unchecked"     *)
(*   caught    what the catch block shows: banner (setError/setStatus),    *)
(*             alert, console                                              *)
(*   rethrow   the catch rethrows to the edit modal, which logs and alerts *)
(*   next      the handler called when this one got through, and whether   *)
(*             only after an OK status (nextOn "ok") or in any case        *)
(***************************************************************************)

Handler(id, mutating, auth, requests, mayAbort, parse, notOk, caught, rethrow, next, nextOn) ==
  [ id |-> id, mutating |-> mutating, auth |-> auth, requests |-> requests,
    mayAbort |-> mayAbort, parse |-> parse, notOk |-> notOk, caught |-> caught,
    rethrow |-> rethrow, next |-> next, nextOn |-> nextOn ]

TasksScreen_load ==
  Handler("TasksScreen_load", FALSE, TRUE, 1, FALSE, "ok", "throw", {"banner"},
          FALSE, "none", "ok")
TasksScreen_saveTask ==
  Handler("TasksScreen_saveTask", TRUE, TRUE, 1, TRUE, "ok", "throw", {"banner"},
          FALSE, "TasksScreen_load", "ok")
TasksScreen_updateTask ==
  Handler("TasksScreen_updateTask", TRUE, TRUE, 1, FALSE, "ok", "throw", {"banner"},
          TRUE, "TasksScreen_load", "ok")
TasksScreen_toggleStatus ==
  Handler("TasksScreen_toggleStatus", TRUE, TRUE, 1, FALSE, "ok", "throw", {"banner"},
          FALSE, "TasksScreen_load", "ok")
TasksScreen_deleteTask ==
  Handler("TasksScreen_deleteTask", TRUE, TRUE, 1, FALSE, "ok", "throw", {"banner"},
          FALSE, "TasksScreen_load", "ok")
ImportScreenNew_handleIcsSync ==
  Handler("ImportScreenNew_handleIcsSync", TRUE, TRUE, 1, TRUE, "always", "alert",
          {"console", "alert"}, FALSE, "none", "ok")
ImportScreenNew_handlePdfUpload ==
  Handler("ImportScreenNew_handlePdfUpload", TRUE, TRUE, 1, TRUE, "always", "alert",
          {"console", "alert"}, FALSE, "none", "ok")
ImportScreen_handleIcsSync ==
  Handler("ImportScreen_handleIcsSync", TRUE, TRUE, 1, TRUE, "always", "alert",
          {"console", "alert"}, FALSE, "none", "ok")
ImportScreen_handlePdfUpload ==
  Handler("ImportScreen_handlePdfUpload", TRUE, TRUE, 1, TRUE, "always", "alert",
          {"console", "alert"}, FALSE, "none", "ok")
UploadScreen_upload ==
  Handler("UploadScreen_upload", TRUE, TRUE, 1, TRUE, "ok", "throw", {"banner"},
          FALSE, "none", "ok")
StatsScreen_loadStats ==
  Handler("StatsScreen_loadStats", FALSE, TRUE, 1, FALSE, "ok", "skip", {"console"},
          FALSE, "none", "ok")
TodayScreenNew_fetchData ==
  Handler("TodayScreenNew_fetchData", FALSE, TRUE, 1, FALSE, "ok", "skip", {"console"},
          FALSE, "TodayScreenNew_fetchData_today", "any")
TodayScreenNew_fetchData_today ==
  Handler("TodayScreenNew_fetchData_today", FALSE, TRUE, 1, FALSE, "ok", "skip",
          {"console"}, FALSE, "none", "ok")
CoursesScreenNew_load ==
  Handler("CoursesScreenNew_load", FALSE, TRUE, 1, FALSE, "ok", "throw", {"banner"},
          FALSE, "none", "ok")
CoursesScreenNew_saveCourse ==
  Handler("CoursesScreenNew_saveCourse", TRUE, TRUE, 1, TRUE, "ok", "throw", {"banner"},
          FALSE, "CoursesScreenNew_load", "ok")
CoursesScreenNew_deleteCourse ==
  Handler("CoursesScreenNew_deleteCourse", TRUE, TRUE, 1, TRUE, "ok", "throw",
          {"banner"}, FALSE, "CoursesScreenNew_load", "ok")
CoursesScreenNew_updateCourse ==
  Handler("CoursesScreenNew_updateCourse", TRUE, TRUE, 1, FALSE, "ok", "throw",
          {"banner"}, TRUE, "CoursesScreenNew_load", "ok")
CoursesScreen_load ==
  Handler("CoursesScreen_load", FALSE, TRUE, 1, FALSE, "ok", "throw", {"banner"},
          FALSE, "none", "ok")
CoursesScreen_saveCourse ==
  Handler("CoursesScreen_saveCourse", TRUE, TRUE, 1, TRUE, "ok", "throw", {"banner"},
          FALSE, "CoursesScreen_load", "ok")
CoursesScreen_deleteCourse ==
  Handler("CoursesScreen_deleteCourse", TRUE, FALSE, 1, FALSE, "ok", "throw", {"banner"},
          FALSE, "CoursesScreen_load", "ok")
CoursesScreen_updateCourse ==
  Handler("CoursesScreen_updateCourse", TRUE, TRUE, 1, FALSE, "ok", "throw", {"banner"},
          TRUE, "CoursesScreen_load", "ok")
ProfileScreen_load ==
  Handler("ProfileScreen_load", FALSE, TRUE, 1, FALSE, "ok", "throw", {"banner"},
          FALSE, "none", "ok")
ProfileScreen_save ==
  Handler("ProfileScreen_save", TRUE, TRUE, 1, FALSE, "ok", "throw", {"banner"},
          FALSE, "ProfileScreen_load", "ok")
TasksScreenNew_fetchTasks ==
  Handler("TasksScreenNew_fetchTasks", FALSE, TRUE, 1, FALSE, "ok", "skip", {"console"},
          FALSE, "none", "ok")
TasksScreenNew_toggleTaskStatus ==
  Handler("TasksScreenNew_toggleTaskStatus", TRUE, TRUE, 1, FALSE, "ok", "skip",
          {"console"}, FALSE, "TasksScreenNew_fetchTasks", "ok")
TasksScreenNew_deleteTask ==
  Handler("TasksScreenNew_deleteTask", TRUE, TRUE, 1, TRUE, "never", "unchecked",
          {"console"}, FALSE, "TasksScreenNew_fetchTasks", "any")
TodayScreen_load ==
  Handler("TodayScreen_load", FALSE, TRUE, 2, FALSE, "always", "unchecked", {"console"},
          FALSE, "none", "ok")
TodayScreenDemo_load ==
  Handler("TodayScreenDemo_load", FALSE, FALSE, 2, FALSE, "always", "unchecked",
          {"console"}, FALSE, "none", "ok")

Handlers ==
  { TasksScreen_load, TasksScreen_saveTask, TasksScreen_updateTask,
    TasksScreen_toggleStatus, TasksScreen_deleteTask,
    ImportScreenNew_handleIcsSync, ImportScreenNew_handlePdfUpload,
    ImportScreen_handleIcsSync, ImportScreen_handlePdfUpload, UploadScreen_upload,
    StatsScreen_loadStats, TodayScreenNew_fetchData, TodayScreenNew_fetchData_today,
    CoursesScreenNew_load, CoursesScreenNew_saveCourse, CoursesScreenNew_deleteCourse,
    CoursesScreenNew_updateCourse, CoursesScreen_load, CoursesScreen_saveCourse,
    CoursesScreen_deleteCourse, CoursesScreen_updateCourse, ProfileScreen_load,
    ProfileScreen_save, TasksScreenNew_fetchTasks, TasksScreenNew_toggleTaskStatus,
    TasksScreenNew_deleteTask, TodayScreen_load, TodayScreenDemo_load }

HandlerById(id) == CHOOSE h \in Handlers : h.id = id

\* what the user (or the screen's mount effect) starts; the second fetch of
\* fetchData only follows the first
UserHandlers == Handlers \ {TodayScreenNew_fetchData_today}

\* getAuthHeaders(): the Authorization header, when the session has a token
getAuthHeaders(hasToken) == IF hasToken THEN {"Authorization"} ELSE {}

NoReq == [by |-> "none", mutating |-> FALSE, headers |-> {}, hadToken |-> FALSE]

\* mutating requests one user action may send before the run stops counting
MaxSent == 3

InitUI ==
  /\ session = FALSE
  /\ act = [ handler |-> "none", pc |-> "idle", req |-> NoReq, nMut |-> 0,
             failure |-> "none", surfaced |-> {} ]
  /\ storage = EmptyStorage
  /\ day = 1
  /\ hour = 12
  /\ arg = 0
  /\ ret = NoRet
  /\ hist = [ calls |-> << >>, nFail |-> 0, onTimeRun |-> 0, maxOnTimeRun |-> 0,
             reported |-> {}, repeated |-> {} ]
  /\ nav = IdleNav
  /\ notif = IdleNotif
  /\ inflight = IdleInflight

\* supabase.auth: sign in, sign out
SignIn ==
  /\ ~session
  /\ session' = TRUE
  /\ UNCHANGED <<inflight, notif, nav, storage, day, hour, arg, ret, hist, act>>

SignOut ==
  /\ session
  /\ session' = FALSE
  /\ UNCHANGED <<inflight, notif, nav, storage, day, hour, arg, ret, hist, act>>

\* the user presses the button (or the screen mounts); go is FALSE when the
\* handler returns before its request
Trigger ==
  \E h \in UserHandlers, go \in BOOLEAN :
    /\ act.pc \in {"idle", "done"}
    /\ go \/ h.mayAbort
    /\ act' = [ handler |-> h.id, pc |-> IF go THEN "start" ELSE "done",
                req |-> NoReq, nMut |-> 0, failure |-> "none", surfaced |-> {} ]
    /\ UNCHANGED <<inflight, notif, nav, storage, day, hour, arg, ret, hist, session>>

\* the headers a handler passes to fetch
requestHeaders(h, hasToken) == IF h.auth THEN getAuthHeaders(hasToken) ELSE {}

\* await getAuthHeaders(), then fetch
Send ==
  /\ act.pc = "start"
  /\ act.nMut < MaxSent
  /\ LET h == HandlerById(act.handler)
     IN act' = [act EXCEPT
                  !.pc = "await",
                  !.req = [ by |-> h.id, mutating |-> h.mutating,
                            headers |-> requestHeaders(h, session),
                            hadToken |-> session ],
                  !.nMut = IF h.mutating THEN @ + h.requests ELSE @]
  /\ UNCHANGED <<inflight, notif, nav, storage, day, hour, arg, ret, hist, session>>

\* the catch block: what it shows (with the edit modal's catch after a rethrow)
catchShows(h) == h.caught \cup (IF h.rethrow THEN {"console", "alert"} ELSE {})

\* mutant: the catch block sends the request again
pcAfterCatch_retry(h) == IF h.mutating THEN "start" ELSE "done"

\* where the handler is after its catch block
pcAfterCatch(h) == "done"

\* the handler got through its try block: the next handler, if it calls one
pcAfterTry(h, status) ==
  IF h.next # "none" /\ (status = "ok" \/ h.nextOn = "any") THEN "start" ELSE "done"

\* the response: fetch rejects ("network"), or resolves with an OK or a non-OK
\* status ("http") and a body that is JSON or not
Respond ==
  \E outcome \in {"ok", "http", "network"}, bodyIsJson \in BOOLEAN :
    /\ act.pc = "await"
    /\ outcome = "ok" => bodyIsJson
    /\ LET h == HandlerById(act.handler)
           raised == \/ outcome = "network"
                     \/ outcome = "http" /\ h.notOk = "throw" /\ h.parse # "always"
                     \/ h.parse = "always" /\ ~bodyIsJson
           shown == IF raised THEN catchShows(h)
                    ELSE IF outcome = "http" /\ h.notOk = "alert" THEN {"alert"}
                    ELSE {}
           through == IF raised THEN pcAfterCatch(h) ELSE pcAfterTry(h, outcome)
       IN act' = [act EXCEPT
                    !.pc = through,
                    !.handler = IF ~raised /\ through = "start" THEN h.next ELSE @,
                    !.failure = IF outcome = "ok" THEN @ ELSE outcome,
                    !.surfaced = IF outcome = "ok" THEN @ ELSE shown]
    /\ UNCHANGED <<inflight, notif, nav, storage, day, hour, arg, ret, hist, session>>

NextUI ==
  \/ SignIn
  \/ SignOut
  \/ Trigger
  \/ Send
  \/ Respond

SpecUI == InitUI /\ [][NextUI]_vars

(***************************************************************************)
(* The tabs.  The bottom-tab navigator mounts a screen when its tab is     *)
(* first opened and keeps it mounted.  The Tasks screen fetches its list   *)
(* when it mounts and on pull-to-refresh; the Import screen posts the      *)
(* import.  nav.server counts the imports the backend has stored,          *)
(* nav.tasks the imports in the list the Tasks screen holds.               *)
(***************************************************************************)

TabNames == {"Today", "Tasks", "Courses", "Stats", "Import", "Profile"}

\* imports made in a run
MaxImports == 2

\* useEffect(() => { fetchTasks(); }, []) of the Tasks screen
mountEffect(t) == IF t = "Tasks" THEN "sent" ELSE "no"

\* mutant: the Tasks screen also fetches whenever its tab is opened
focusEffect_refetch(n, t) == IF t = "Tasks" THEN "sent" ELSE n.loading

\* what opening a mounted tab starts: nothing, no screen listens to focus
focusEffect(n, t) == n.loading

\* the user opens another tab
FocusTab ==
  \E t \in TabNames \ {nav.tab} :
    /\ nav' = [nav EXCEPT
                 !.tab = t,
                 !.mounted = @ \cup {t},
                 !.loading = IF t \in nav.mounted THEN focusEffect(nav, t)
                             ELSE mountEffect(t)]
    /\ UNCHANGED <<inflight, notif, storage, day, hour, arg, ret, hist, session, act>>

\* handleIcsSync / handlePdfUpload with an OK answer: the backend has stored
\* the imported tasks, the screen alerts the success
ImportSucceeds ==
  /\ nav.tab = "Import"
  /\ nav.server < MaxImports
  /\ nav' = [nav EXCEPT !.server = @ + 1]
  /\ UNCHANGED <<inflight, notif, storage, day, hour, arg, ret, hist, session, act>>

\* pull-to-refresh on the Tasks screen
OnRefresh ==
  /\ nav.tab = "Tasks"
  /\ nav.loading = "no"
  /\ nav' = [nav EXCEPT !.loading = "sent"]
  /\ UNCHANGED <<inflight, notif, storage, day, hour, arg, ret, hist, session, act>>

\* the backend answers GET /tasks with what it holds, or the request fails
ServeTasks ==
  \E ok \in BOOLEAN :
    /\ nav.loading = "sent"
    /\ nav' = IF ok THEN [nav EXCEPT !.loading = "served", !.reply = nav.server]
              ELSE [nav EXCEPT !.loading = "no", !.loadFailed = TRUE]
    /\ UNCHANGED <<inflight, notif, storage, day, hour, arg, ret, hist, session, act>>

\* fetchTasks / load: setTasks(data.tasks)
TasksResponse ==
  /\ nav.loading = "served"
  /\ nav' = [nav EXCEPT !.loading = "no", !.tasks = nav.reply, !.reply = 0,
                        !.loadFailed = FALSE]
  /\ UNCHANGED <<inflight, notif, storage, day, hour, arg, ret, hist, session, act>>

InitImport == InitUI

NextImport ==
  \/ FocusTab
  \/ ImportSucceeds
  \/ OnRefresh
  \/ ServeTasks
  \/ TasksResponse

SpecImport == InitImport /\ [][NextImport]_vars

(***************************************************************************)
(* RewardNotification: the effect on [visible], its timer and the dismiss  *)
(* animation                                                               *)
(***************************************************************************)

\* the callback of the dismiss animation of show e: onDismiss()
animationCallback(n, e) ==
  IF e = 0 THEN n ELSE [n EXCEPT !.dismissed[e] = @ + 1, !.anim = 0]

\* mutant: the effect returns no cleanup
cleanup_noclear(n) == n

\* the effect's cleanup: clearTimeout(timeout)
cleanup(n) == [n EXCEPT !.timers = @ \ {n.shows}]

\* the show the cleanup cancels, if its timer is still pending
cancelledBy(n) == IF n.shows \in n.timers THEN {n.shows} ELSE {}

\* the parent sets visible: the effect starts the entrance animations (which
\* may stop a dismiss animation still running, whose callback then runs) and
\* the 3-second timer
Show ==
  \E stops \in BOOLEAN :
    /\ notif.mounted
    /\ ~notif.visible
    /\ notif.shows < MaxShows
    /\ LET n == IF stops THEN animationCallback(notif, notif.anim) ELSE notif
       IN notif' = [n EXCEPT !.visible = TRUE, !.shows = @ + 1,
                             !.timers = @ \cup {n.shows + 1}]
    /\ UNCHANGED <<inflight, nav, storage, day, hour, arg, ret, hist, session, act>>

\* the parent clears visible: the effect's cleanup runs
Hide ==
  /\ notif.mounted
  /\ notif.visible
  /\ notif' = [cleanup(notif) EXCEPT !.visible = FALSE,
                                     !.cancelled = @ \cup cancelledBy(notif)]
  /\ UNCHANGED <<inflight, nav, storage, day, hour, arg, ret, hist, session, act>>

\* the component unmounts: the cleanup of the last effect runs
Unmount ==
  /\ notif.mounted
  /\ notif' = IF notif.visible
              THEN [cleanup(notif) EXCEPT !.mounted = FALSE,
                                          !.cancelled = @ \cup cancelledBy(notif)]
              ELSE [notif EXCEPT !.mounted = FALSE]
  /\ UNCHANGED <<inflight, nav, storage, day, hour, arg, ret, hist, session, act>>

\* a timer elapses: dismissAnimation() starts the dismiss animation, ending one
\* that still runs
TimerFires ==
  \E e \in notif.timers :
    /\ notif' = [animationCallback(notif, notif.anim) EXCEPT
                   !.timers = @ \ {e}, !.anim = e]
    /\ UNCHANGED <<inflight, nav, storage, day, hour, arg, ret, hist, session, act>>

\* the dismiss animation ends: its start callback resets the values and calls
\* onDismiss
AnimationEnds ==
  /\ notif.anim # 0
  /\ notif' = animationCallback(notif, notif.anim)
  /\ UNCHANGED <<inflight, nav, storage, day, hour, arg, ret, hist, session, act>>

InitNotif == InitUI

NextNotif ==
  \/ Show
  \/ Hide
  \/ Unmount
  \/ TimerFires
  \/ AnimationEnds

\* timers elapse and animations end
SpecNotif ==
  InitNotif /\ [][NextNotif]_vars /\ WF_vars(TimerFires) /\ WF_vars(AnimationEnds)

(***************************************************************************)
(* The gamification calls, started without awaiting one another.  A call   *)
(* is suspended at each await of AsyncStorage: completeTask and            *)
(* completePomodoroSession read, write, then read and write again inside   *)
(* awardXP; awardXP alone reads and writes once.  The code between two     *)
(* awaits runs without interruption.                                       *)
(***************************************************************************)

\* calls started in a run, and the amounts awardXP is called with
MaxCalls == 3
RaceAmounts == {10, 100}

RaceOps ==
  { [op |-> "completeTask", xp |-> calculateTaskXP(PlainTask)],
    [op |-> "completePomodoroSession", xp |-> 5] }
    \cup { [op |-> "awardXP", xp |-> a] : a \in RaceAmounts }

InitRace == InitPure({0})

\* a caller starts a call
StartCall ==
  \E p \in Callers, o \in RaceOps :
    /\ inflight.calls[p].pc \in {"idle", "done"}
    /\ inflight.started < MaxCalls
    /\ inflight' = [inflight EXCEPT
                      !.started = @ + 1,
                      !.calls[p] = [ op |-> o.op, xp |-> o.xp, stats |-> getDefaultStats,
                                     pc |-> IF o.op = "awardXP" THEN "read2" ELSE "read1" ]]
    /\ UNCHANGED <<notif, nav, storage, day, hour, arg, ret, hist, session, act>>

\* what a call does with the stats it has read, up to its next write
afterRead(c, stats, today, h) ==
  IF c.pc = "read2" THEN awardXPStats(stats, c.xp)
  ELSE IF c.op = "completeTask" THEN completeTaskStats(stats, PlainTask, today, h).stats
  ELSE completePomodoroStats(stats, h).stats

\* await loadPlayerStats() resumes, and the call runs on to its next write
ReadStorage ==
  \E p \in Callers, readFails \in BOOLEAN :
    /\ inflight.calls[p].pc \in {"read1", "read2"}
    /\ readFails => hist.nFail < MaxFail
    /\ LET c == inflight.calls[p]
           stats == loadPlayerStats(storage, readFails).stats
       IN inflight' = [inflight EXCEPT
                         !.calls[p].stats = afterRead(c, stats, day, hour),
                         !.calls[p].pc = IF c.pc = "read1" THEN "write1" ELSE "write2"]
    /\ hist' = [hist EXCEPT !.nFail = IF readFails THEN @ + 1 ELSE @]
    /\ UNCHANGED <<notif, nav, storage, day, hour, arg, ret, session, act>>

\* await savePlayerStats(stats) resumes
WriteStorage ==
  \E p \in Callers, writeFails \in BOOLEAN :
    /\ inflight.calls[p].pc \in {"write1", "write2"}
    /\ writeFails => hist.nFail < MaxFail
    /\ LET c == inflight.calls[p]
       IN /\ storage' = savePlayerStats(storage, c.stats, writeFails).storage
          /\ inflight' = [inflight EXCEPT
                            !.calls[p].pc = IF c.pc = "write1" THEN "read2" ELSE "done"]
    /\ hist' = [hist EXCEPT !.nFail = IF writeFails THEN @ + 1 ELSE @]
    /\ UNCHANGED <<notif, nav, day, hour, arg, ret, session, act>>

NextRace ==
  \/ StartCall
  \/ ReadStorage
  \/ WriteStorage

SpecRace == InitRace /\ [][NextRace]_vars

(***************************************************************************)
(* Properties                                                              *)
(***************************************************************************)

persisted == storage.blob

Unlocked(id) == Includes(persisted.badges, id)

\* the thresholds of levels 1..10
LevelThresholds == <<0, 100, 250, 500, 1000, 2000, 3500, 5500, 8000, 12000>>

\* C1: calculateLevel(xp) is the level of the largest threshold <= xp, 1 when xp
\* is below every threshold, and it does not decrease as xp grows.
C1_LevelIsLargestThreshold ==
  ret.op = "calculateLevel" =>
    /\ arg < 0 => ret.level = 1
    /\ arg >= 0 =>
         \E k \in 1..10 :
           /\ ret.level = k
           /\ LevelThresholds[k] <= arg
           /\ \A j \in 1..10 :
                LevelThresholds[j] <= arg => LevelThresholds[j] <= LevelThresholds[k]
    /\ calculateLevel(arg - 1) <= ret.level

\* C1 witness: the call at a threshold, which gives that threshold's level
C1_Witness == ret.op = "calculateLevel" /\ arg = 250 /\ ret.level = 3

\* C2: loadPlayerStats returns the defaults, without raising, when the read fails
\* or the key holds no value; savePlayerStats does not raise when the write fails
\* and leaves the storage as it was.
C2_StorageErrorsFallBack ==
  [][ /\ (ret'.op = "loadFailed" \/ (ret'.op = "load" /\ ~storage.present))
        => (~ret'.raised /\ ret'.stats = getDefaultStats)
      /\ ret'.op = "saveFailed" => (~ret'.raised /\ storage' = storage) ]_vars

\* C2 witness: the read failed while the storage held stats that are not the defaults
C2_Witness ==
  /\ ret.op = "loadFailed"
  /\ storage.present
  /\ persisted.tasksCompleted > 0
  /\ ret.stats = getDefaultStats

\* the predicates of the six counter badges
CounterBadges ==
  { "first_task", "week_warrior", "speedster", "perfectionist",
    "pomodoro_master", "study_marathon" }

CounterPredicate(id, stats) ==
  CASE id = "first_task" -> stats.tasksCompleted >= 1
    [] id = "week_warrior" -> stats.currentStreak >= 7
    [] id = "speedster" -> stats.tasksCompletedToday >= 5
    [] id = "perfectionist" -> stats.tasksCompletedOnTime >= 10
    [] id = "pomodoro_master" -> stats.pomodoroSessions >= 25
    [] id = "study_marathon" -> stats.totalStudyHours >= 40

\* C3: checkForNewBadges returns a counter badge that is not yet unlocked exactly
\* when the badge's own predicate holds, whatever the other badges, and never
\* returns a badge that is already unlocked.
C3_BadgesIndependent ==
  ret.op = "checkForNewBadges" =>
    /\ \A id \in CounterBadges :
         ~Includes(arg.stats.badges, id) =>
           (Includes(ret.newBadges, id) <=> CounterPredicate(id, arg.stats))
    /\ \A id \in BadgeIds :
         Includes(arg.stats.badges, id) => ~Includes(ret.newBadges, id)

\* C3 witness: one badge returned while another is already unlocked and held
\* back, and a third is still locked
C3_Witness ==
  /\ ret.op = "checkForNewBadges"
  /\ Includes(arg.stats.badges, "first_task")
  /\ arg.stats.tasksCompleted >= 1
  /\ Includes(ret.newBadges, "perfectionist")
  /\ ~Includes(arg.stats.badges, "speedster")
  /\ ~Includes(ret.newBadges, "speedster")

\* C4: every request sent to the backend while the session has an access token
\* carries the Authorization header of getAuthHeaders.
C4_RequestsCarryAuthHeader ==
  act.req.by # "none" /\ act.req.hadToken => "Authorization" \in act.req.headers

\* C5: a request that failed, by a rejected fetch or by a non-OK status, has
\* been shown as a banner, an alert or a console log once its handler is through.
C5_FailuresSurfaced ==
  act.pc \in {"start", "done"} /\ act.failure # "none" => act.surfaced # {}

\* C6: one user action sends its mutating request at most once, also after the
\* request failed.
C6_NoRetry == act.nMut <= 1

\* C6 witness: a create request failed and its handler ended after one request
C6_Witness ==
  /\ act.handler = "TasksScreen_saveTask"
  /\ act.pc = "done"
  /\ act.failure = "http"
  /\ act.surfaced = {"banner"}
  /\ act.nMut = 1

\* C7: early_bird enters the persisted badges only by a completeTask at an hour
\* < 8, night_owl only by a completeTask at an hour >= 22.
C7_HourBadgesOnlyByTask ==
  [][ /\ (~Unlocked("early_bird") /\ Includes(storage'.blob.badges, "early_bird"))
        => (ret'.op = "completeTask" /\ hour < 8)
      /\ (~Unlocked("night_owl") /\ Includes(storage'.blob.badges, "night_owl"))
        => (ret'.op = "completeTask" /\ hour >= 22) ]_vars

\* C8: perfectionist is unlocked only after 10 tasks completed in time with no
\* late one in between.
C8_PerfectionistNeedsCleanRun ==
  Unlocked("perfectionist") => hist.maxOnTimeRun >= 10

\* C9: speedster is persisted only if 5 completeTask calls were made on one day,
\* and tasksCompletedToday counts no more than the calls made on lastTaskDate.
C9_SpeedsterNeedsFiveInADay ==
  /\ Unlocked("speedster") => \E d \in DOMAIN hist.calls : hist.calls[d] >= 5
  /\ persisted.lastTaskDate # NoDate =>
       persisted.tasksCompletedToday <= hist.calls[persisted.lastTaskDate]
  /\ persisted.lastTaskDate = NoDate => persisted.tasksCompletedToday = 0

\* C9 witness: five tasks on the first day unlocked the badge, and the first
\* task of the second day set the day counter back to 1
C9_Witness ==
  /\ Unlocked("speedster")
  /\ hist.calls[1] >= 5
  /\ persisted.lastTaskDate = 2
  /\ persisted.tasksCompletedToday = 1

\* the number of consecutive days, ending at day d, with a completeTask call
RECURSIVE RunEndingAt(_, _)
RunEndingAt(calls, d) ==
  IF d \notin DOMAIN calls \/ calls[d] = 0 THEN 0
  ELSE 1 + RunEndingAt(calls, d - 1)

WeekOfCalls == \E d \in DOMAIN hist.calls : RunEndingAt(hist.calls, d) >= 7

C11_ProgressInUnitRange ==
  ret.op = "getLevelProgress" /\ arg.currentLevel = calculateLevel(arg.totalXP) =>
    /\ ret.progress.kind = "finite"
    /\ NumLeq(Num(0), ret.progress)
    /\ NumLeq(ret.progress, Num(1))

\* C11 below the top level: the same, for stats of the levels 1 to 9
C11_ProgressBelowTop ==
  ret.op = "getLevelProgress" /\ arg.currentLevel = calculateLevel(arg.totalXP)
    /\ arg.currentLevel < Len(LEVELS) =>
      /\ ret.progress.kind = "finite"
      /\ NumLeq(Num(0), ret.progress)
      /\ NumLeq(ret.progress, Num(1))

\* C12: once an import has succeeded, the list of the Tasks screen holds the
\* imported tasks when the user opens the tab, with no pull-to-refresh: with
\* the tab open and no fetch in flight or failed, the list has every import.
C12_ImportedTasksListed ==
  nav.tab = "Tasks" /\ nav.loading = "no" /\ ~nav.loadFailed => nav.tasks = nav.server

\* C13: each time visible becomes true, onDismiss is called exactly once, after
\* the timer has elapsed and the dismiss animation has ended, unless visible
\* became false or the component unmounted before the timer fired; then the
\* timer is cancelled and onDismiss is never called for that show.
C13_DismissedAtMostOnce ==
  \A e \in 1..MaxShows :
    /\ notif.dismissed[e] <= 1
    /\ e > notif.shows => notif.dismissed[e] = 0
    /\ e \in notif.cancelled => notif.dismissed[e] = 0 /\ e \notin notif.timers
    /\ notif.dismissed[e] = 1 => e \notin notif.timers /\ notif.anim # e

C13_AutoDismiss ==
  /\ []C13_DismissedAtMostOnce
  /\ \A e \in 1..MaxShows :
       (notif.shows = e) ~> (e \in notif.cancelled \/ notif.dismissed[e] = 1)

\* C13 witness: the first show was dismissed by its timer, the second was
\* hidden before its timer fired
C13_Witness ==
  /\ notif.dismissed[1] = 1
  /\ 2 \in notif.cancelled
  /\ notif.dismissed[2] = 0
  /\ notif.shows = 3

\* the storage after the call c has run alone from the storage st, no read or
\* write failing
RunAlone(st, c) ==
  IF c.op = "awardXP" THEN awardXP(st, c.xp, FALSE, FALSE).storage
  ELSE LET stats == loadPlayerStats(st, FALSE).stats
           done == IF c.op = "completeTask"
                   THEN completeTaskStats(stats, PlainTask, day, hour).stats
                   ELSE completePomodoroStats(stats, hour).stats
       IN awardXP(savePlayerStats(st, done, FALSE).storage, c.xp, FALSE, FALSE).storage

\* two calls, one by each caller, have run from the default stats and finished,
\* and no read or write failed
TwoCallsDone ==
  /\ inflight.started = 2
  /\ \A p \in Callers : inflight.calls[p].pc = "done"
  /\ hist.nFail = 0

\* C14: two calls that interleave at their storage awaits leave the stats that
\* running them one after the other, in one of the two orders, leaves; no
\* increment is lost.
C14_InterleavingSerializable ==
  TwoCallsDone =>
    \/ storage = RunAlone(RunAlone(EmptyStorage, inflight.calls[1]), inflight.calls[2])
    \/ storage = RunAlone(RunAlone(EmptyStorage, inflight.calls[2]), inflight.calls[1])

\* C15: in every persisted blob reached by completeTask, completePomodoroSession
\* and awardXP calls, one after another or interleaved, currentLevel is
\* calculateLevel(totalXP).
C15_LevelMatchesXP ==
  persisted.currentLevel = calculateLevel(persisted.totalXP)

\* C15 witness: interleaved calls have brought the persisted XP past the
\* threshold of level 2, and a lost update has happened on the way
C15_Witness ==
  /\ persisted.totalXP >= 100
  /\ persisted.currentLevel = 2
  /\ inflight.started = 3
  /\ \A p \in Callers : inflight.calls[p].pc = "done"
  /\ persisted.tasksCompleted = 0
  /\ persisted.totalXP = 100

\* C16: over completeTask, completePomodoroSession and awardXP calls, storage
\* reads and writes failing or not, the persisted tasksCompleted,
\* pomodoroSessions and totalXP never decrease and no persisted badge is removed.
C16_CountersNeverDecrease ==
  [][ /\ storage'.blob.tasksCompleted >= storage.blob.tasksCompleted
      /\ storage'.blob.pomodoroSessions >= storage.blob.pomodoroSessions
      /\ storage'.blob.totalXP >= storage.blob.totalXP
      /\ BadgeSet(storage.blob.badges) \subseteq BadgeSet(storage'.blob.badges) ]_vars

\* C16 without failures: the same, over the steps in which no read or write fails
C16_CountersNeverDecreaseNoFailure ==
  [][ hist'.nFail = hist.nFail =>
        /\ storage'.blob.tasksCompleted >= storage.blob.tasksCompleted
        /\ storage'.blob.pomodoroSessions >= storage.blob.pomodoroSessions
        /\ storage'.blob.totalXP >= storage.blob.totalXP
        /\ BadgeSet(storage.blob.badges) \subseteq BadgeSet(storage'.blob.badges) ]_vars

\* C17: when completeTask has returned, the persisted stats hold both its
\* counter update and the XP of its result, or neither of them.
C17_CompleteTaskAllOrNothing ==
  [][ ret'.op = "completeTask" =>
        \/ /\ storage'.blob.tasksCompleted = storage.blob.tasksCompleted + 1
           /\ storage'.blob.totalXP = storage.blob.totalXP + ret'.xp
        \/ /\ storage'.blob.tasksCompleted = storage.blob.tasksCompleted
           /\ storage'.blob.totalXP = storage.blob.totalXP ]_vars

\* C17 without failures: a completeTask in which no read or write fails
\* persists both
C17_CompleteTaskBothNoFailure ==
  [][ ret'.op = "completeTask" /\ hist'.nFail = hist.nFail /\ storage' # storage =>
        /\ storage'.blob.tasksCompleted = storage.blob.tasksCompleted + 1
        /\ storage'.blob.totalXP = storage.blob.totalXP + ret'.xp ]_vars

\* a step in which completeTask ran with no storage failure
TaskStep ==
  /\ hist'.nFail = hist.nFail
  /\ storage'.blob.tasksCompleted = storage.blob.tasksCompleted + 1

\* C18: a completeTask on the day of lastTaskDate leaves currentStreak,
\* longestStreak and lastTaskDate and adds 1 to tasksCompletedToday; on the day
\* after lastTaskDate it adds 1 to currentStreak; with no lastTaskDate or on any
\* other day it sets currentStreak to 1; in both of these lastTaskDate becomes
\* today, tasksCompletedToday 1 and longestStreak the larger of its old value
\* and the new currentStreak.  longestStreak >= currentStreak in every
\* persisted state.
C18_StreakUpdate ==
  /\ [][ TaskStep =>
           LET s == storage.blob
               t == storage'.blob
               streak == IF s.lastTaskDate # NoDate /\ s.lastTaskDate = day - 1
                         THEN s.currentStreak + 1 ELSE 1
           IN IF s.lastTaskDate = day
              THEN /\ t.currentStreak = s.currentStreak
                   /\ t.longestStreak = s.longestStreak
                   /\ t.lastTaskDate = s.lastTaskDate
                   /\ t.tasksCompletedToday = s.tasksCompletedToday + 1
              ELSE /\ t.currentStreak = streak
                   /\ t.lastTaskDate = day
                   /\ t.tasksCompletedToday = 1
                   /\ t.longestStreak = IF streak > s.longestStreak
                                        THEN streak ELSE s.longestStreak ]_vars
  /\ [](persisted.longestStreak >= persisted.currentStreak)

\* C18 witness: a streak of 3 days was broken and a new one of 2 days has
\* grown, with a second task on its last day
C18_Witness ==
  /\ persisted.longestStreak = 3
  /\ persisted.currentStreak = 2
  /\ persisted.lastTaskDate = day
  /\ persisted.tasksCompletedToday = 2
  /\ hist.nFail = 0

\* C19: over completeTask calls run one after another, a badge is in the
\* newBadges result of at most one call, and the persisted badges never hold an
\* id twice.
C19_BadgeReportedOnce ==
  /\ hist.repeated = {}
  /\ Cardinality(BadgeSet(persisted.badges)) = Len(persisted.badges)

\* C19 without failures: the same, as long as no storage read or write failed
C19_BadgeReportedOnceNoFailure ==
  hist.nFail = 0 =>
    /\ hist.repeated = {}
    /\ Cardinality(BadgeSet(persisted.badges)) = Len(persisted.badges)

\* C20: calculateTaskXP is 10 + priority bonus + duration bonus, the priority
\* bonus 15 for high, 10 for medium, 5 for low and 0 otherwise, the duration
\* bonus min(2 * estimated_duration, 30) when the duration is present and not 0,
\* else 0; for durations >= 0 the result is from 10 to 55.
C20_TaskXPFormula ==
  ret.op = "calculateTaskXP" =>
    LET bonus == IF arg.priority = "high" THEN 15
                 ELSE IF arg.priority = "medium" THEN 10
                 ELSE IF arg.priority = "low" THEN 5 ELSE 0
        double == 2 * arg.estimated_duration
        duration == IF ~arg.has_duration \/ arg.estimated_duration = 0 THEN 0
                    ELSE IF double < 30 THEN double ELSE 30
    IN /\ ret.xp = 10 + bonus + duration
       /\ (arg.has_duration => arg.estimated_duration >= 0) => ret.xp >= 10 /\ ret.xp <= 55

\* C20 witness: a high task at the cap of the duration bonus gives 55, and the
\* bonus is capped
C20_Witness ==
  /\ ret.op = "calculateTaskXP"
  /\ arg.priority = "high"
  /\ arg.has_duration
  /\ arg.estimated_duration = 20
  /\ ret.xp = 55

\* the priorities the edit modal offers, in ascending order
Priorities == <<"low", "medium", "high", "urgent">>

PriorityRank(p) == CHOOSE i \in 1..Len(Priorities) : Priorities[i] = p

\* C21: for equal estimated_duration, calculateTaskXP is monotone in the
\* priority: low <= medium <= high <= urgent.
C21_XPMonotoneInPriority ==
  ret.op = "calculateTaskXP" /\ arg.priority \in BadgeSet(Priorities) =>
    \A i \in 1..PriorityRank(arg.priority) :
      calculateTaskXP([arg EXCEPT !.priority = Priorities[i]]) <= ret.xp

\* C21 without urgent: the same over low, medium and high
C21_XPMonotoneBelowUrgent ==
  ret.op = "calculateTaskXP" /\ arg.priority \in {"low", "medium", "high"} =>
    \A i \in 1..PriorityRank(arg.priority) :
      calculateTaskXP([arg EXCEPT !.priority = Priorities[i]]) <= ret.xp

====
